---- MODULE Spec2Model ----
(***************************************************************************)
(* Model of the instance-metadata client of go-mastodon (instance.go):     *)
(* the four operations GetInstance, GetInstanceV2, GetInstanceActivity and *)
(* GetInstancePeers, the accessor Instance.GetConfig, and the JSON         *)
(* decoding and encoding that the struct tags of instance.go select.       *)
(*                                                                         *)
(* Wire strings are sequences of one-character strings, so that parsing a  *)
(* numeric string is a computation.  JSON object keys, Go field names and  *)
(* map keys are atomic strings.                                            *)
(***************************************************************************)
EXTENDS Integers, Sequences, FiniteSets, TLC

VARIABLES client, server, calls, mem, requests

vars == <<client, server, calls, mem, requests>>

(***************************************************************************)
(* Bounds of the model.                                                    *)
(***************************************************************************)
\* Calls that may be in progress at once on the shared client (Spec).
MaxCalls == 2
\* Longest JSON array the server sends to a single caller (SpecCaller).
MaxLen == 2
\* Longest content of a counter string the server sends (SpecCaller).
MaxDigits == 2

(***************************************************************************)
(* JSON values as they arrive on the wire.                                 *)
(***************************************************************************)
JNull == [t |-> "null"]
JBad == [t |-> "bad"]
JBool(b) == [t |-> "bool", b |-> b]
JNum(n) == [t |-> "num", n |-> n]
JStr(s) == [t |-> "str", s |-> s]
JArr(es) == [t |-> "arr", a |-> es]
JObj(ms) == [t |-> "obj", o |-> ms]
Member(k, j) == [k |-> k, v |-> j]

(***************************************************************************)
(* Go types of instance.go, as data: the decoder and the encoder are       *)
(* driven by the declared type and the json tag of each field.             *)
(***************************************************************************)
TString == [k |-> "string"]
TInt == [k |-> "int"]
TBool == [k |-> "bool"]
TAny == [k |-> "any"]
TUnixtime == [k |-> "unixtime"]
TSlice(e) == [k |-> "slice", e |-> e]
TMap(e) == [k |-> "map", e |-> e]
TPtr(e) == [k |-> "ptr", e |-> e]
TStruct(fs) == [k |-> "struct", f |-> fs]
\* One struct field: Go name, json key, type, and the tag options.
Field(name, key, ty) == [name |-> name, key |-> key, ty |-> ty, omitempty |-> FALSE, quoted |-> FALSE]
FieldOmitEmpty(name, key, ty) == [name |-> name, key |-> key, ty |-> ty, omitempty |-> TRUE, quoted |-> FALSE]
FieldQuoted(name, key, ty) == [name |-> name, key |-> key, ty |-> ty, omitempty |-> FALSE, quoted |-> TRUE]

\* Account is declared outside instance.go; the fields the tests read.
Account ==
  TStruct(<< Field("ID", "id", TString),
             Field("Username", "username", TString) >>)

InstanceConfigMap == TMap(TAny)

\* InstanceConfig with omitempty on its media_attachments map.
InstanceConfigOmitEmpty ==
  TStruct(<< Field("Accounts", "accounts", TPtr(InstanceConfigMap)),
             Field("Statuses", "statuses", TPtr(InstanceConfigMap)),
             FieldOmitEmpty("MediaAttachments", "media_attachments", TMap(TAny)),
             Field("Polls", "polls", TPtr(InstanceConfigMap)) >>)

InstanceConfig ==
  TStruct(<< Field("Accounts", "accounts", TPtr(InstanceConfigMap)),
             Field("Statuses", "statuses", TPtr(InstanceConfigMap)),
             Field("MediaAttachments", "media_attachments", TMap(TAny)),
             Field("Polls", "polls", TPtr(InstanceConfigMap)) >>)

InstanceStats ==
  TStruct(<< Field("UserCount", "user_count", TInt),
             Field("StatusCount", "status_count", TInt),
             Field("DomainCount", "domain_count", TInt) >>)

Instance ==
  TStruct(<< Field("URI", "uri", TString),
             Field("Title", "title", TString),
             Field("Description", "description", TString),
             Field("EMail", "email", TString),
             FieldOmitEmpty("Version", "version", TString),
             FieldOmitEmpty("Thumbnail", "thumbnail", TString),
             FieldOmitEmpty("URLs", "urls", TMap(TString)),
             FieldOmitEmpty("Stats", "stats", TPtr(InstanceStats)),
             Field("Languages", "languages", TSlice(TString)),
             Field("ContactAccount", "contact_account", TPtr(Account)),
             Field("Configuration", "configuration", TPtr(InstanceConfig)) >>)

Rule ==
  TStruct(<< Field("ID", "id", TString),
             Field("Text", "text", TString) >>)

InstanceV2Usage ==
  TStruct(<< Field("Users", "users",
                   TStruct(<< Field("ActiveMonth", "active_month", TInt) >>)) >>)

InstanceV2Thumbnail ==
  TStruct(<< Field("URL", "url", TString),
             Field("Blurhash", "blurhash", TAny),
             Field("Versions", "versions",
                   TStruct(<< Field("One_X", "@1x", TAny),
                              Field("Two_X", "@2x", TAny) >>)) >>)

InstanceV2Configuration ==
  TStruct(<< Field("Urls", "urls",
                   TStruct(<< Field("Streaming", "streaming", TString) >>)),
             Field("Accounts", "accounts",
                   TStruct(<< Field("MaxFeaturedTags", "max_featured_tags", TInt) >>)),
             Field("Statuses", "statuses",
                   TStruct(<< Field("MaxCharacters", "max_characters", TInt),
                              Field("MaxMediaAttachments", "max_media_attachments", TInt),
                              Field("CharactersReservedPerURL", "characters_reserved_per_url", TInt) >>)),
             Field("MediaAttachments", "media_attachments",
                   TStruct(<< Field("SupportedMimeTypes", "supported_mime_types", TSlice(TString)),
                              Field("ImageSizeLimit", "image_size_limit", TInt),
                              Field("ImageMatrixLimit", "image_matrix_limit", TInt),
                              Field("VideoSizeLimit", "video_size_limit", TInt),
                              Field("VideoFrameRateLimit", "video_frame_rate_limit", TInt),
                              Field("VideoMatrixLimit", "video_matrix_limit", TInt) >>)),
             Field("Polls", "polls",
                   TStruct(<< Field("MaxOptions", "max_options", TInt),
                              Field("MaxCharactersPerOption", "max_characters_per_option", TInt),
                              Field("MinExpiration", "min_expiration", TInt),
                              Field("MaxExpiration", "max_expiration", TInt) >>)),
             Field("Translation", "translation",
                   TStruct(<< Field("Enabled", "enabled", TBool) >>)) >>)

InstanceV2 ==
  TStruct(<< Field("Domain", "domain", TString),
             Field("Title", "title", TString),
             Field("Version", "version", TString),
             Field("SourceURL", "source_url", TString),
             Field("Description", "description", TString),
             Field("Usage", "usage", InstanceV2Usage),
             Field("Thumbnail", "thumbnail", InstanceV2Thumbnail),
             Field("Languages", "languages", TSlice(TString)),
             Field("Configuration", "configuration", InstanceV2Configuration),
             Field("Registrations", "registrations",
                   TStruct(<< Field("Enabled", "enabled", TBool),
                              Field("ApprovalRequired", "approval_required", TBool),
                              Field("Message", "message", TAny) >>)),
             Field("Contact", "contact",
                   TStruct(<< Field("Email", "email", TString),
                              Field("Account", "Account", TPtr(Account)) >>)),
             Field("Rules", "rules", TSlice(Rule)) >>)

\* WeeklyActivity with the ",string" option of its counters left out.
WeeklyActivityUnquoted ==
  TStruct(<< Field("Week", "week", TUnixtime),
             Field("Statuses", "statuses", TInt),
             Field("Logins", "logins", TInt),
             Field("Registrations", "registrations", TInt) >>)

WeeklyActivity ==
  TStruct(<< Field("Week", "week", TUnixtime),
             FieldQuoted("Statuses", "statuses", TInt),
             FieldQuoted("Logins", "logins", TInt),
             FieldQuoted("Registrations", "registrations", TInt) >>)

(***************************************************************************)
(* Go values.  A nil pointer, slice or map is told apart from an empty one *)
(* (isnil); a pointer carries the address of the variable it points at.    *)
(***************************************************************************)
NilPtr == [isnil |-> TRUE]
Ptr(addr, p) == [isnil |-> FALSE, addr |-> addr, p |-> p]
NilSlice == [isnil |-> TRUE, e |-> <<>>]
Slice(es) == [isnil |-> FALSE, e |-> es]
NilMap == [isnil |-> TRUE, m |-> <<>>]
Map(m) == [isnil |-> FALSE, m |-> m]
AnyNil == [t |-> "nil"]

FieldNames(ty) == {ty.f[i].name : i \in DOMAIN ty.f}
FieldOf(ty, name) == ty.f[CHOOSE i \in DOMAIN ty.f : ty.f[i].name = name]

RECURSIVE Zero(_)
\* The zero value of a Go type (var x T).
Zero(ty) ==
  CASE ty.k = "string" -> <<>>
    [] ty.k = "int" -> 0
    [] ty.k = "bool" -> FALSE
    [] ty.k = "any" -> AnyNil
    [] ty.k = "unixtime" -> [set |-> FALSE, sec |-> 0]
    [] ty.k = "slice" -> NilSlice
    [] ty.k = "map" -> NilMap
    [] ty.k = "ptr" -> NilPtr
    [] ty.k = "struct" -> [n \in FieldNames(ty) |-> Zero(FieldOf(ty, n).ty)]

(***************************************************************************)
(* Errors.  NoErr is Go's nil error.                                       *)
(***************************************************************************)
NoErr == [kind |-> "nil"]
ErrTransport == [kind |-> "transport"]
ErrStatus(code) == [kind |-> "status", code |-> code]
ErrDecode(why, at) == [kind |-> "decode", why |-> why, at |-> at]

(***************************************************************************)
(* Parsing of a decimal integer (strconv.ParseInt(s, 10, 64)), as used for *)
(* fields tagged ",string" and for Unixtime.                               *)
(***************************************************************************)
Digits == {"0", "1", "2", "3", "4", "5", "6", "7", "8", "9"}
DigitVal(c) ==
  CASE c = "0" -> 0 [] c = "1" -> 1 [] c = "2" -> 2 [] c = "3" -> 3 [] c = "4" -> 4
    [] c = "5" -> 5 [] c = "6" -> 6 [] c = "7" -> 7 [] c = "8" -> 8 [] c = "9" -> 9

RECURSIVE DigitsVal(_)
DigitsVal(s) ==
  IF s = <<>> THEN 0 ELSE 10 * DigitsVal(SubSeq(s, 1, Len(s) - 1)) + DigitVal(s[Len(s)])

AllDigits(s) == s # <<>> /\ \A i \in DOMAIN s : s[i] \in Digits

\* [ok, n]: ok is FALSE for a syntax error.
ParseInt(s) ==
  IF s # <<>> /\ s[1] \in {"-", "+"}
  THEN LET r == Tail(s)
       IN IF AllDigits(r)
          THEN [ok |-> TRUE, n |-> IF s[1] = "-" THEN 0 - DigitsVal(r) ELSE DigitsVal(r)]
          ELSE [ok |-> FALSE, n |-> 0]
  ELSE IF AllDigits(s) THEN [ok |-> TRUE, n |-> DigitsVal(s)] ELSE [ok |-> FALSE, n |-> 0]

NullLiteral == <<"n", "u", "l", "l">>

(***************************************************************************)
(* Decoding (encoding/json as doAPI's Decode applies it to the types       *)
(* above).  A decode returns [v, e, abort]: the destination's new value,   *)
(* the errors saved so far (the first is the one reported), and whether    *)
(* decoding stopped at once.  Type errors are saved and decoding goes on,  *)
(* so the destination may be partly filled when an error is reported.      *)
(***************************************************************************)
Ok(v) == [v |-> v, e |-> <<>>, abort |-> FALSE]
Fail(v, why, at) == [v |-> v, e |-> <<ErrDecode(why, at)>>, abort |-> FALSE]
Abort(v, why, at) == [v |-> v, e |-> <<ErrDecode(why, at)>>, abort |-> TRUE]

RECURSIVE ToAny(_)
\* JSON decoded into interface{}: numbers become float64, objects maps.
ToAny(j) ==
  CASE j.t = "null" -> AnyNil
    [] j.t = "bool" -> [t |-> "bool", b |-> j.b]
    [] j.t = "num" -> [t |-> "f64", n |-> j.n]
    [] j.t = "str" -> [t |-> "string", s |-> j.s]
    [] j.t = "arr" -> [t |-> "slice", a |-> [i \in DOMAIN j.a |-> ToAny(j.a[i])]]
    [] j.t = "obj" ->
         LET last(k) == CHOOSE i \in DOMAIN j.o :
                          j.o[i].k = k /\ \A n \in DOMAIN j.o : n > i => j.o[n].k # k
         IN [t |-> "map", o |-> [k \in {j.o[i].k : i \in DOMAIN j.o} |-> ToAny(j.o[last(k)].v)]]

\* A field tagged ",string" holding the string s (literalStore, fromQuoted).
\* The literal null leaves the field as it is; a literal that starts like
\* null, true, false or a string is an error that is saved; any other start
\* that is not a digit or a minus sign ends the decoding at once.
LiteralStoreQuoted(s, old, at) ==
  IF s = <<>> THEN Fail(old, "string-tag", at)
  ELSE IF s = NullLiteral THEN Ok(old)
  ELSE IF s[1] \in {"n", "t", "f", "\""} THEN Fail(old, "string-tag", at)
  ELSE IF s[1] \notin Digits \cup {"-"} THEN Abort(old, "string-tag", at)
  ELSE IF ParseInt(s).ok THEN Ok(ParseInt(s).n)
  ELSE Fail(old, "type", at)

\* An integer field tagged ",string".
DecQuotedInt(j, old, at) ==
  CASE j.t = "null" -> Ok(old)
    [] j.t = "str" -> LiteralStoreQuoted(j.s, old, at)
    [] OTHER -> Fail(old, "string-tag", at)

\* Unixtime.UnmarshalJSON: strips the quotes and parses epoch seconds.
DecUnixtime(j, old, at) ==
  CASE j.t = "str" -> IF ParseInt(j.s).ok
                      THEN Ok([set |-> TRUE, sec |-> ParseInt(j.s).n])
                      ELSE Abort(old, "unixtime", at)
    [] j.t = "num" -> Ok([set |-> TRUE, sec |-> j.n])
    [] OTHER -> Abort(old, "unixtime", at)

\* The field a JSON key selects: the exact key, else one equal but for case.
Lower(k) == IF k = "Account" THEN "account" ELSE k
FieldIndex(ty, key) ==
  IF \E i \in DOMAIN ty.f : ty.f[i].key = key
  THEN CHOOSE i \in DOMAIN ty.f : ty.f[i].key = key
  ELSE IF \E i \in DOMAIN ty.f : Lower(ty.f[i].key) = Lower(key)
  THEN CHOOSE i \in DOMAIN ty.f : Lower(ty.f[i].key) = Lower(key)
  ELSE 0

RECURSIVE Dec(_, _, _, _), DecMembers(_, _, _, _, _), DecElems(_, _, _, _, _), DecEntries(_, _, _, _, _)

\* Members n.. of a JSON object into the struct value acc.
DecMembers(ty, ms, n, acc, at) ==
  IF n > Len(ms) THEN acc
  ELSE LET i == FieldIndex(ty, ms[n].k)
       IN IF i = 0 THEN DecMembers(ty, ms, n + 1, acc, at)
          ELSE LET fd == ty.f[i]
                   r == IF fd.quoted /\ fd.ty.k = "int"
                        THEN DecQuotedInt(ms[n].v, acc.v[fd.name], Append(at, fd.name))
                        ELSE Dec(fd.ty, ms[n].v, acc.v[fd.name], Append(at, fd.name))
                   nxt == [v |-> [acc.v EXCEPT ![fd.name] = r.v],
                           e |-> acc.e \o r.e, abort |-> r.abort]
               IN IF r.abort THEN nxt ELSE DecMembers(ty, ms, n + 1, nxt, at)

\* Elements n.. of a JSON array into the element sequence acc.
DecElems(ety, es, n, acc, at) ==
  IF n > Len(es) THEN acc
  ELSE LET r == Dec(ety, es[n], Zero(ety), Append(at, ToString(n)))
           nxt == [v |-> Append(acc.v, r.v), e |-> acc.e \o r.e, abort |-> r.abort]
       IN IF r.abort THEN nxt ELSE DecElems(ety, es, n + 1, nxt, at)

\* Members n.. of a JSON object into the map acc (a later key overwrites).
DecEntries(ety, ms, n, acc, at) ==
  IF n > Len(ms) THEN acc
  ELSE LET r == Dec(ety, ms[n].v, Zero(ety), Append(at, ms[n].k))
           m == [k \in DOMAIN acc.v \cup {ms[n].k} |-> IF k = ms[n].k THEN r.v ELSE acc.v[k]]
           nxt == [v |-> m, e |-> acc.e \o r.e, abort |-> r.abort]
       IN IF r.abort THEN nxt ELSE DecEntries(ety, ms, n + 1, nxt, at)

\* The JSON value j decoded into a destination of type ty holding old.
Dec(ty, j, old, at) ==
  CASE ty.k = "unixtime" -> DecUnixtime(j, old, at)
    [] ty.k = "any" -> Ok(ToAny(j))
    [] ty.k # "unixtime" /\ ty.k # "any" /\ j.t = "null" ->
         IF ty.k \in {"ptr", "map", "slice"} THEN Ok(Zero(ty)) ELSE Ok(old)
    [] ty.k = "ptr" /\ j.t # "null" ->
         LET cur == IF old.isnil THEN Zero(ty.e) ELSE old.p
             addr == IF old.isnil THEN at ELSE old.addr
             r == Dec(ty.e, j, cur, at)
         IN [v |-> Ptr(addr, r.v), e |-> r.e, abort |-> r.abort]
    [] ty.k = "string" /\ j.t # "null" ->
         IF j.t = "str" THEN Ok(j.s) ELSE Fail(old, "type", at)
    [] ty.k = "int" /\ j.t # "null" ->
         IF j.t = "num" THEN Ok(j.n) ELSE Fail(old, "type", at)
    [] ty.k = "bool" /\ j.t # "null" ->
         IF j.t = "bool" THEN Ok(j.b) ELSE Fail(old, "type", at)
    [] ty.k = "slice" /\ j.t # "null" ->
         IF j.t = "arr"
         THEN LET r == DecElems(ty.e, j.a, 1, Ok(<<>>), at)
              IN [v |-> Slice(r.v), e |-> r.e, abort |-> r.abort]
         ELSE Fail(old, "type", at)
    [] ty.k = "map" /\ j.t # "null" ->
         IF j.t = "obj"
         THEN LET r == DecEntries(ty.e, j.o, 1, Ok(old.m), at)
              IN [v |-> Map(r.v), e |-> r.e, abort |-> r.abort]
         ELSE Fail(old, "type", at)
    [] ty.k = "struct" /\ j.t # "null" ->
         IF j.t = "obj" THEN DecMembers(ty, j.o, 1, Ok(old), at)
         ELSE Fail(old, "type", at)

\* json.Decoder.Decode of a response body: [v, err].
Decode(ty, body, old, at) ==
  IF body.t = "bad" THEN [v |-> old, err |-> ErrDecode("syntax", at)]
  ELSE LET r == Dec(ty, body, old, at)
       IN [v |-> r.v,
           err |-> IF r.abort THEN r.e[Len(r.e)]
                   ELSE IF r.e # <<>> THEN r.e[1] ELSE NoErr]

(***************************************************************************)
(* Encoding (json.Marshal of the types of Instance).  A field tagged       *)
(* omitempty is left out when it holds false, 0, a nil pointer or          *)
(* interface, or an empty string, slice or map.                            *)
(***************************************************************************)
RECURSIVE SetToSeq(_)
\* Map keys are written in sorted order; any fixed order serves here.
SetToSeq(S) ==
  IF S = {} THEN <<>>
  ELSE LET x == CHOOSE x \in S : TRUE IN <<x>> \o SetToSeq(S \ {x})

RECURSIVE FromAny(_)
FromAny(a) ==
  CASE a.t = "nil" -> JNull
    [] a.t = "bool" -> JBool(a.b)
    [] a.t = "f64" -> JNum(a.n)
    [] a.t = "string" -> JStr(a.s)
    [] a.t = "slice" -> JArr([i \in DOMAIN a.a |-> FromAny(a.a[i])])
    [] a.t = "map" ->
         LET ks == SetToSeq(DOMAIN a.o)
         IN JObj([i \in DOMAIN ks |-> Member(ks[i], FromAny(a.o[ks[i]]))])

IsEmptyValue(ty, v) ==
  CASE ty.k = "string" -> v = <<>>
    [] ty.k = "int" -> v = 0
    [] ty.k = "bool" -> v = FALSE
    [] ty.k = "any" -> v = AnyNil
    [] ty.k = "slice" -> Len(v.e) = 0
    [] ty.k = "map" -> DOMAIN v.m = {}
    [] ty.k = "ptr" -> v.isnil
    [] OTHER -> FALSE

RECURSIVE Enc(_, _), EncFields(_, _, _)

\* The members of struct value v for fields n.. of ty.
EncFields(ty, v, n) ==
  IF n > Len(ty.f) THEN <<>>
  ELSE LET fd == ty.f[n]
       IN IF fd.omitempty /\ IsEmptyValue(fd.ty, v[fd.name])
          THEN EncFields(ty, v, n + 1)
          ELSE <<Member(fd.key, Enc(fd.ty, v[fd.name]))>> \o EncFields(ty, v, n + 1)

Enc(ty, v) ==
  CASE ty.k = "string" -> JStr(v)
    [] ty.k = "int" -> JNum(v)
    [] ty.k = "bool" -> JBool(v)
    [] ty.k = "any" -> FromAny(v)
    [] ty.k = "slice" ->
         IF v.isnil THEN JNull ELSE JArr([i \in DOMAIN v.e |-> Enc(ty.e, v.e[i])])
    [] ty.k = "map" ->
         IF v.isnil THEN JNull
         ELSE LET ks == SetToSeq(DOMAIN v.m)
              IN JObj([i \in DOMAIN ks |-> Member(ks[i], Enc(ty.e, v.m[ks[i]]))])
    [] ty.k = "ptr" -> IF v.isnil THEN JNull ELSE Enc(ty.e, v.p)
    [] ty.k = "struct" -> JObj(EncFields(ty, v, 1))

(***************************************************************************)
(* The payloads the test servers of instance_test.go answer with.          *)
(***************************************************************************)
\* The payload of TestGetInstance.
PayloadInstance ==
  JObj(<< Member("title", JStr(<<"m", "a", "s", "t", "o", "d", "o", "n">>)),
          Member("uri", JStr(<<"h", "t", "t", "p", ":", "/", "/", "m", "s", "t", "d", "n", ".", "e", "x", "a", "m", "p", "l", "e", ".", "c", "o", "m">>)),
          Member("description", JStr(<<"t", "e", "s", "t", " ", "m", "a", "s", "t", "o", "d", "o", "n">>)),
          Member("email", JStr(<<"m", "s", "t", "d", "n", "@", "m", "s", "t", "d", "n", ".", "e", "x", "a", "m", "p", "l", "e", ".", "c", "o", "m">>)),
          Member("contact_account", JObj(<< Member("username", JStr(<<"m", "a", "t", "t", "n">>)) >>)) >>)

\* The payload of TestGetInstanceV2.
PayloadInstanceV2 ==
  JObj(<< Member("domain", JStr(<<"m", "a", "s", "t", "o", "d", "o", "n", ".", "s", "o", "c", "i", "a", "l">>)),
          Member("title", JStr(<<"M", "a", "s", "t", "o", "d", "o", "n">>)),
          Member("version", JStr(<<"4", ".", "0", ".", "0", "r", "c", "1">>)),
          Member("source_url", JStr(<<"h", "t", "t", "p", "s", ":", "/", "/", "g", "i", "t", "h", "u", "b", ".", "c", "o", "m", "/", "m", "a", "s", "t", "o", "d", "o", "n", "/", "m", "a", "s", "t", "o", "d", "o", "n">>)),
          Member("description", JStr(<<"T", "h", "e", " ", "o", "r", "i", "g", "i", "n", "a", "l", " ", "s", "e", "r", "v", "e", "r", " ", "o", "p", "e", "r", "a", "t", "e", "d", " ", "b", "y", " ", "t", "h", "e", " ", "M", "a", "s", "t", "o", "d", "o", "n", " ", "g", "G", "m", "b", "H", " ", "n", "o", "n", "-", "p", "r", "o", "f", "i", "t">>)),
          Member("usage", JObj(<< Member("users", JObj(<< Member("active_month", JNum(123122)) >>)) >>)),
          Member("thumbnail", JObj(<< Member("url", JStr(<<"h", "t", "t", "p", "s", ":", "/", "/", "f", "i", "l", "e", "s", ".", "m", "a", "s", "t", "o", "d", "o", "n", ".", "s", "o", "c", "i", "a", "l", "/", "s", "i", "t", "e", "_", "u", "p", "l", "o", "a", "d", "s", "/", "f", "i", "l", "e", "s", "/", "0", "0", "0", "/", "0", "0", "0", "/", "0", "0", "1", "/", "@", "1", "x", "/", "5", "7", "c", "1", "2", "f", "4", "4", "1", "d", "0", "8", "3", "c", "d", "e", ".", "p", "n", "g">>)),
                  Member("blurhash", JStr(<<"U", "e", "K", "U", "p", "F", "x", "u", "o", "~", "R", "%", "0", "n", "W", ";", "W", "C", "n", "h", "F", "6", "R", "j", "a", "J", "t", "7", "5", "7", "o", "J", "o", "d", "S", "$">>)),
                  Member("versions", JObj(<< Member("@1x", JStr(<<"h", "t", "t", "p", "s", ":", "/", "/", "f", "i", "l", "e", "s", ".", "m", "a", "s", "t", "o", "d", "o", "n", ".", "s", "o", "c", "i", "a", "l", "/", "s", "i", "t", "e", "_", "u", "p", "l", "o", "a", "d", "s", "/", "f", "i", "l", "e", "s", "/", "0", "0", "0", "/", "0", "0", "0", "/", "0", "0", "1", "/", "@", "1", "x", "/", "5", "7", "c", "1", "2", "f", "4", "4", "1", "d", "0", "8", "3", "c", "d", "e", ".", "p", "n", "g">>)),
                          Member("@2x", JStr(<<"h", "t", "t", "p", "s", ":", "/", "/", "f", "i", "l", "e", "s", ".", "m", "a", "s", "t", "o", "d", "o", "n", ".", "s", "o", "c", "i", "a", "l", "/", "s", "i", "t", "e", "_", "u", "p", "l", "o", "a", "d", "s", "/", "f", "i", "l", "e", "s", "/", "0", "0", "0", "/", "0", "0", "0", "/", "0", "0", "1", "/", "@", "2", "x", "/", "5", "7", "c", "1", "2", "f", "4", "4", "1", "d", "0", "8", "3", "c", "d", "e", ".", "p", "n", "g">>)) >>)) >>)),
          Member("languages", JArr(<< JStr(<<"e", "n">>) >>)),
          Member("configuration", JObj(<< Member("urls", JObj(<< Member("streaming", JStr(<<"w", "s", "s", ":", "/", "/", "m", "a", "s", "t", "o", "d", "o", "n", ".", "s", "o", "c", "i", "a", "l">>)) >>)),
                  Member("accounts", JObj(<< Member("max_featured_tags", JNum(10)) >>)),
                  Member("statuses", JObj(<< Member("max_characters", JNum(500)),
                          Member("max_media_attachments", JNum(4)),
                          Member("characters_reserved_per_url", JNum(23)) >>)),
                  Member("media_attachments", JObj(<< Member("supported_mime_types", JArr(<< JStr(<<"i", "m", "a", "g", "e", "/", "j", "p", "e", "g">>),
                                  JStr(<<"i", "m", "a", "g", "e", "/", "p", "n", "g">>) >>)),
                          Member("image_size_limit", JNum(10485760)),
                          Member("image_matrix_limit", JNum(16777216)),
                          Member("video_size_limit", JNum(41943040)),
                          Member("video_frame_rate_limit", JNum(60)),
                          Member("video_matrix_limit", JNum(2304000)) >>)),
                  Member("polls", JObj(<< Member("max_options", JNum(4)),
                          Member("max_characters_per_option", JNum(50)),
                          Member("min_expiration", JNum(300)),
                          Member("max_expiration", JNum(2629746)) >>)),
                  Member("translation", JObj(<< Member("enabled", JBool(TRUE)) >>)) >>)),
          Member("registrations", JObj(<< Member("enabled", JBool(FALSE)),
                  Member("approval_required", JBool(FALSE)),
                  Member("message", JNull) >>)),
          Member("contact", JObj(<< Member("email", JStr(<<"s", "t", "a", "f", "f", "@", "m", "a", "s", "t", "o", "d", "o", "n", ".", "s", "o", "c", "i", "a", "l">>)),
                  Member("account", JObj(<< Member("id", JStr(<<"1">>)),
                          Member("username", JStr(<<"G", "a", "r", "g", "r", "o", "n">>)),
                          Member("acct", JStr(<<"G", "a", "r", "g", "r", "o", "n">>)),
                          Member("display_name", JStr(<<"E", "u", "g", "e", "n", " ", "?", "?", "?", "?">>)),
                          Member("locked", JBool(FALSE)),
                          Member("bot", JBool(FALSE)),
                          Member("discoverable", JBool(TRUE)),
                          Member("group", JBool(FALSE)),
                          Member("created_at", JStr(<<"2", "0", "1", "6", "-", "0", "3", "-", "1", "6", "T", "0", "0", ":", "0", "0", ":", "0", "0", ".", "0", "0", "0", "Z">>)),
                          Member("note", JStr(<<">">>)),
                          Member("url", JStr(<<"h", "t", "t", "p", "s", ":", "/", "/", "m", "a", "s", "t", "o", "d", "o", "n", ".", "s", "o", "c", "i", "a", "l", "/", "@", "G", "a", "r", "g", "r", "o", "n">>)),
                          Member("avatar", JStr(<<>>)),
                          Member("avatar_static", JStr(<<>>)),
                          Member("header", JStr(<<>>)),
                          Member("header_static", JStr(<<>>)),
                          Member("followers_count", JNum(133026)),
                          Member("following_count", JNum(311)),
                          Member("statuses_count", JNum(72605)),
                          Member("last_status_at", JStr(<<"2", "0", "2", "2", "-", "1", "0", "-", "3", "1">>)),
                          Member("noindex", JBool(FALSE)),
                          Member("emojis", JArr(<<>>)),
                          Member("fields", JArr(<<>>)) >>)) >>)),
          Member("rules", JArr(<< JObj(<< Member("id", JStr(<<"1">>)),
                          Member("text", JStr(<<"B", "e", "h", "a", "v", "e">>)) >>),
                  JObj(<< Member("id", JStr(<<"2">>)),
                          Member("text", JStr(<<"B", "e", " ", "n", "i", "c", "e">>)) >>) >>)) >>)

\* The payload of TestGetInstanceMore.
PayloadInstanceMore ==
  JObj(<< Member("title", JStr(<<"m", "a", "s", "t", "o", "d", "o", "n">>)),
          Member("uri", JStr(<<"h", "t", "t", "p", ":", "/", "/", "m", "s", "t", "d", "n", ".", "e", "x", "a", "m", "p", "l", "e", ".", "c", "o", "m">>)),
          Member("description", JStr(<<"t", "e", "s", "t", " ", "m", "a", "s", "t", "o", "d", "o", "n">>)),
          Member("email", JStr(<<"m", "s", "t", "d", "n", "@", "m", "s", "t", "d", "n", ".", "e", "x", "a", "m", "p", "l", "e", ".", "c", "o", "m">>)),
          Member("version", JStr(<<"0", ".", "0", ".", "1">>)),
          Member("urls", JObj(<< Member("foo", JStr(<<"h", "t", "t", "p", ":", "/", "/", "s", "t", "r", "e", "a", "m", "1", ".", "e", "x", "a", "m", "p", "l", "e", ".", "c", "o", "m">>)),
                  Member("bar", JStr(<<"h", "t", "t", "p", ":", "/", "/", "s", "t", "r", "e", "a", "m", "2", ".", "e", "x", "a", "m", "p", "l", "e", ".", "c", "o", "m">>)) >>)),
          Member("thumbnail", JStr(<<"h", "t", "t", "p", ":", "/", "/", "m", "s", "t", "d", "n", ".", "e", "x", "a", "m", "p", "l", "e", ".", "c", "o", "m", "/", "l", "o", "g", "o", ".", "p", "n", "g">>)),
          Member("configuration", JObj(<< Member("accounts", JObj(<< Member("max_featured_tags", JNum(10)) >>)),
                  Member("statuses", JObj(<< Member("max_characters", JNum(500)) >>)) >>)),
          Member("stats", JObj(<< Member("user_count", JNum(1)),
                  Member("status_count", JNum(2)),
                  Member("domain_count", JNum(3)) >>)) >>)

\* The payload of TestGetInstanceActivity.
PayloadActivity ==
  JArr(<< JObj(<< Member("week", JStr(<<"1", "5", "1", "6", "5", "7", "9", "2", "0", "0">>)),
                  Member("statuses", JStr(<<"1">>)),
                  Member("logins", JStr(<<"1">>)),
                  Member("registrations", JStr(<<"0">>)) >>) >>)

\* The payload of TestGetInstancePeers.
PayloadPeers ==
  JArr(<< JStr(<<"m", "a", "s", "t", "o", "d", "o", "n", ".", "s", "o", "c", "i", "a", "l">>),
          JStr(<<"m", "s", "t", "d", "n", ".", "j", "p">>) >>)

(***************************************************************************)
(* The client, the server and the calls.                                   *)
(***************************************************************************)
\* The client of the tests (NewClient(&Config{...})); no operation assigns it.
ClientConfig ==
  [Server |-> "ts.URL", ClientID |-> "foo", ClientSecret |-> "bar", AccessToken |-> "zoo"]

Ops == {"GetInstance", "GetInstanceV2", "GetInstanceActivity", "GetInstancePeers"}

MethodGet == "GET"
NoParams == "nil"

\* The context the caller of call i passes in.
Ctx(i) == <<"ctx", ToString(i)>>

\* The arguments of the one doAPI call each operation makes.
GetInstanceRequest(ctx) ==
  [ctx |-> ctx, method |-> MethodGet, uri |-> "/api/v1/instance", params |-> NoParams, pg |-> NoParams]
\* GetInstanceV2 asking for the path of GetInstance.
GetInstanceV2RequestV1Path(ctx) ==
  [ctx |-> ctx, method |-> MethodGet, uri |-> "/api/v1/instance", params |-> NoParams, pg |-> NoParams]
GetInstanceV2Request(ctx) ==
  [ctx |-> ctx, method |-> MethodGet, uri |-> "/api/v2/instance", params |-> NoParams, pg |-> NoParams]
GetInstanceActivityRequest(ctx) ==
  [ctx |-> ctx, method |-> MethodGet, uri |-> "/api/v1/instance/activity", params |-> NoParams, pg |-> NoParams]
GetInstancePeersRequest(ctx) ==
  [ctx |-> ctx, method |-> MethodGet, uri |-> "/api/v1/instance/peers", params |-> NoParams, pg |-> NoParams]

RequestOf(op, ctx) ==
  CASE op = "GetInstance" -> GetInstanceRequest(ctx)
    [] op = "GetInstanceV2" -> GetInstanceV2Request(ctx)
    [] op = "GetInstanceActivity" -> GetInstanceActivityRequest(ctx)
    [] op = "GetInstancePeers" -> GetInstancePeersRequest(ctx)

\* The type of the variable each operation decodes into
\* (var instance Instance, var instance InstanceV2, var activity, var peers).
DestType(op) ==
  CASE op = "GetInstance" -> Instance
    [] op = "GetInstanceV2" -> InstanceV2
    [] op = "GetInstanceActivity" -> TSlice(TPtr(WeeklyActivity))
    [] op = "GetInstancePeers" -> TSlice(TString)

\* Where that variable lives: it is declared in the body of the operation,
\* so every call has its own.
\* One variable shared by every call instead.
DestShared(i) == <<"shared", "0">>
Dest(i) == <<"call", ToString(i)>>

Ref(addr) == [isnil |-> FALSE, addr |-> addr]

\* What each operation returns once doAPI has returned err.
\* GetInstance returning the record along with the error.
GetInstanceKeepsRecord(addr, err) == [res |-> Ref(addr), err |-> err]

GetInstance(addr, err) ==
  IF err # NoErr THEN [res |-> NilPtr, err |-> err] ELSE [res |-> Ref(addr), err |-> NoErr]

\* GetInstanceV2 returning the record along with the error.
GetInstanceV2KeepsRecord(addr, err) == [res |-> Ref(addr), err |-> err]

GetInstanceV2(addr, err) ==
  IF err # NoErr THEN [res |-> NilPtr, err |-> err] ELSE [res |-> Ref(addr), err |-> NoErr]

\* GetInstanceActivity returning what was decoded along with the error.
GetInstanceActivityPartial(activity, err) == [res |-> activity, err |-> err]

GetInstanceActivity(activity, err) ==
  IF err # NoErr THEN [res |-> NilSlice, err |-> err] ELSE [res |-> activity, err |-> NoErr]

\* GetInstancePeers returning the peers last to first.
GetInstancePeersReversed(peers, err) ==
  IF err # NoErr THEN [res |-> NilSlice, err |-> err]
  ELSE [res |-> [peers EXCEPT !.e = [n \in DOMAIN peers.e |-> peers.e[Len(peers.e) + 1 - n]]],
        err |-> NoErr]

GetInstancePeers(peers, err) ==
  IF err # NoErr THEN [res |-> NilSlice, err |-> err] ELSE [res |-> peers, err |-> NoErr]

\* GetConfig handing out an empty configuration where there is none.
GetConfigDefaulting(c) ==
  [res |-> IF c.Configuration.isnil THEN Ptr(<<"new">>, Zero(InstanceConfig)) ELSE c.Configuration,
   self |-> c]

\* Instance.GetConfig: the result, and the receiver as the call leaves it.
GetConfig(c) == [res |-> c.Configuration, self |-> c]

\* json.Marshal of an Instance.
Marshal(ty, v) == Enc(ty, v)

(***************************************************************************)
(* The API caller (doAPI, declared outside instance.go): one HTTP request; *)
(* an error on a transport failure, on a status that is not 2xx, or when   *)
(* the body does not decode; the status is checked before anything is      *)
(* decoded.                                                                *)
(***************************************************************************)
Statuses == {200, 500}
Responses == {[kind |-> "transport", status |-> 0]} \cup {[kind |-> "http", status |-> s] : s \in Statuses}

doAPI(resp, body, ty, old, at) ==
  IF resp.kind = "transport" THEN [v |-> old, err |-> ErrTransport]
  ELSE IF resp.status \notin 200..299 THEN [v |-> old, err |-> ErrStatus(resp.status)]
  ELSE Decode(ty, body, old, at)

(***************************************************************************)
(* State.  calls[i] is one invocation of an operation: where it stands     *)
(* (pc), the response its request got, the error doAPI returned, and what  *)
(* the operation returned.  mem holds the variables the calls decode into. *)
(* requests is the log of the doAPI calls made, in order.                  *)
(***************************************************************************)
Unset == [set |-> FALSE]
IdleCall ==
  [pc |-> "idle", op |-> "none", ctx |-> <<>>, resp |-> [kind |-> "none", status |-> 0],
   err |-> NoErr, ret |-> [res |-> NilPtr, err |-> NoErr],
   cfg |-> Unset, enc |-> Unset, redec |-> Unset]
Unallocated == [k |-> "unallocated"]

Invoke(i) ==
  /\ calls[i].pc = "idle"
  /\ \E op \in Ops :
       /\ calls' = [calls EXCEPT ![i] = [@ EXCEPT !.pc = "inflight", !.op = op, !.ctx = Ctx(i)]]
       /\ mem' = [mem EXCEPT ![Dest(i)] = Zero(DestType(op))]
       /\ requests' = Append(requests, [call |-> i, req |-> RequestOf(op, Ctx(i))])
  /\ UNCHANGED <<client, server>>

\* The response arrives: doAPI returns into the call's variable and the
\* operation returns what its last lines make of doAPI's error.
Return(i) ==
  /\ calls[i].pc = "inflight"
  /\ \E resp \in Responses :
       LET op == calls[i].op
           r == doAPI(resp, server.body, DestType(op), mem[Dest(i)], Dest(i))
           ret == CASE op = "GetInstance" -> GetInstance(Dest(i), r.err)
                    [] op = "GetInstanceV2" -> GetInstanceV2(Dest(i), r.err)
                    [] op = "GetInstanceActivity" -> GetInstanceActivity(r.v, r.err)
                    [] op = "GetInstancePeers" -> GetInstancePeers(r.v, r.err)
       IN /\ calls' = [calls EXCEPT ![i] = [@ EXCEPT !.pc = "done", !.resp = resp,
                                                     !.err = r.err, !.ret = ret]]
          /\ mem' = [mem EXCEPT ![Dest(i)] = r.v]
  /\ UNCHANGED <<client, server, requests>>

\* The caller holds an Instance: a GetInstance that returned without error.
HoldsInstance(i) ==
  /\ calls[i].pc = "done"
  /\ calls[i].op = "GetInstance"
  /\ calls[i].ret.err = NoErr

GetConfigStep(i) ==
  /\ HoldsInstance(i)
  /\ ~calls[i].cfg.set
  /\ LET a == calls[i].ret.res.addr
         r == GetConfig(mem[a])
     IN /\ calls' = [calls EXCEPT ![i] = [@ EXCEPT !.cfg = [set |-> TRUE, v |-> r.res, before |-> mem[a]]]]
        /\ mem' = [mem EXCEPT ![a] = r.self]
  /\ UNCHANGED <<client, server, requests>>

MarshalStep(i) ==
  /\ HoldsInstance(i)
  /\ ~calls[i].enc.set
  /\ calls' = [calls EXCEPT ![i] = [@ EXCEPT !.enc =
                 [set |-> TRUE, v |-> Marshal(Instance, mem[calls[i].ret.res.addr])]]]
  /\ UNCHANGED <<client, server, mem, requests>>

UnmarshalStep(i) ==
  /\ calls[i].enc.set
  /\ ~calls[i].redec.set
  /\ calls' = [calls EXCEPT ![i] = [@ EXCEPT !.redec =
                 [set |-> TRUE, r |-> Decode(Instance, calls[i].enc.v, Zero(Instance), <<"redecoded">>)]]]
  /\ UNCHANGED <<client, server, mem, requests>>

(***************************************************************************)
(* Spec: MaxCalls calls on one shared client, their steps interleaved,     *)
(* against a server that holds one of the payloads of the tests.           *)
(***************************************************************************)
SpecBodies ==
  {PayloadInstance, PayloadInstanceMore, PayloadInstanceV2, PayloadActivity, PayloadPeers,
   JNull, JObj(<<>>)}

Init ==
  /\ client = ClientConfig
  /\ \E b \in SpecBodies : server = [body |-> b]
  /\ calls = [i \in 1..MaxCalls |-> IdleCall]
  /\ mem = [a \in {Dest(i) : i \in 1..MaxCalls} |-> Unallocated]
  /\ requests = <<>>

Next ==
  \/ \E i \in DOMAIN calls : Invoke(i)
  \/ \E i \in DOMAIN calls : Return(i)

Spec == Init /\ [][Next]_vars

(***************************************************************************)
(* SpecCaller: one caller, against a server that holds any of a wider set  *)
(* of payloads; the caller may go on to call GetConfig on the Instance it  *)
(* got, and to encode it and decode the encoding again.                    *)
(***************************************************************************)
SeqsUpTo(S, n) == UNION {[1..k -> S] : k \in 0..n}

sMastodonSocial == <<"m", "a", "s", "t", "o", "d", "o", "n", ".", "s", "o", "c", "i", "a", "l">>
sMstdnJp == <<"m", "s", "t", "d", "n", ".", "j", "p">>

\* Peers payloads: arrays in any order, with repeats, and with elements
\* that are not strings.
PeerElems == {JStr(sMastodonSocial), JStr(sMstdnJp), JNull, JNum(1)}
PeersBodies == {JArr(es) : es \in SeqsUpTo(PeerElems, MaxLen)}

\* Activity payloads: every element is well formed, except that one
\* counter of one element holds any short string, null, a bare number, or
\* is left out.
CounterChars == {"0", "1", "-", "x"}
CounterStrings == SeqsUpTo(CounterChars, MaxDigits) \cup {NullLiteral}
CounterWires ==
  {<<JStr(s)>> : s \in CounterStrings} \cup {<<JNull>>, <<JNum(1)>>, <<>>}
Counters == {"statuses", "logins", "registrations"}
sWeek == <<"1", "5", "1", "6", "5", "7", "9", "2", "0", "0">>
CounterMember(k, w) == IF w = <<>> THEN <<>> ELSE <<Member(k, w[1])>>
\* The n-th well-formed element: its logins counter is n.
GoodElem(n) ==
  JObj(<< Member("week", JStr(sWeek)), Member("statuses", JStr(<<"1">>)),
          Member("logins", JStr(<<ToString(n)>>)), Member("registrations", JStr(<<"0">>)) >>)
\* The n-th element with counter k holding w.
VariedElem(n, k, w) ==
  JObj(<<Member("week", JStr(sWeek))>>
       \o CounterMember("statuses", IF k = "statuses" THEN w ELSE <<JStr(<<"1">>)>>)
       \o CounterMember("logins", IF k = "logins" THEN w ELSE <<JStr(<<ToString(n)>>)>>)
       \o CounterMember("registrations", IF k = "registrations" THEN w ELSE <<JStr(<<"0">>)>>))
ActivityBodies ==
  {JArr(<<>>)} \cup
  {JArr([i \in 1..n |-> IF i = p THEN VariedElem(i, k, w) ELSE GoodElem(i)]) :
     <<n, p, k, w>> \in {q \in (1..MaxLen) \X (1..MaxLen) \X Counters \X CounterWires : q[2] <= q[1]}}

\* Instance payloads: the optional members absent, null, empty and filled.
sFoo == <<"h", "t", "t", "p", ":", "/", "/", "s", "1">>
sBar == <<"h", "t", "t", "p", ":", "/", "/", "s", "2">>
sVersion == <<"0", ".", "0", ".", "1">>
sLogo == <<"l", "o", "g", "o", ".", "p", "n", "g">>
sEn == <<"e", "n">>
sMattn == <<"m", "a", "t", "t", "n">>
UrlsOpts ==
  {<<>>, <<Member("urls", JNull)>>, <<Member("urls", JObj(<<>>))>>, <<Member("urls", JNum(1))>>,
   <<Member("urls", JObj(<<Member("foo", JStr(sFoo)), Member("bar", JStr(sBar))>>))>>}
StatsOpts ==
  {<<>>, <<Member("stats", JNull)>>, <<Member("stats", JObj(<<>>))>>,
   <<Member("stats", JObj(<<Member("user_count", JNum(1)), Member("status_count", JNum(2)),
                            Member("domain_count", JNum(3))>>))>>}
ConfigOpts ==
  {<<>>, <<Member("configuration", JNull)>>, <<Member("configuration", JObj(<<>>))>>,
   <<Member("configuration",
            JObj(<<Member("accounts", JObj(<<Member("max_featured_tags", JNum(10))>>)),
                   Member("statuses", JObj(<<Member("max_characters", JNum(500))>>))>>))>>,
   <<Member("configuration",
            JObj(<<Member("accounts", JNull),
                   Member("statuses", JObj(<<>>)),
                   Member("media_attachments", JObj(<<>>)),
                   Member("polls", JObj(<<Member("max_options", JNum(4)),
                                          Member("other", JArr(<<JNum(1), JStr(sEn), JNull, JBool(TRUE)>>))>>))>>))>>}
StringOpts ==
  {<<>>, <<Member("version", JStr(<<>>)), Member("thumbnail", JStr(<<>>))>>,
   <<Member("version", JStr(sVersion)), Member("thumbnail", JStr(sLogo))>>}
LangOpts ==
  {<<>>, <<Member("languages", JNull)>>, <<Member("languages", JArr(<<>>))>>,
   <<Member("languages", JArr(<<JStr(sEn)>>))>>}
ContactOpts ==
  {<<>>, <<Member("contact_account", JNull)>>,
   <<Member("contact_account", JObj(<<Member("username", JStr(sMattn))>>))>>}
InstanceBase ==
  <<Member("title", JStr(<<"m">>)), Member("uri", JStr(<<"u">>)),
    Member("description", JStr(<<"d">>)), Member("email", JStr(<<"e">>))>>
InstanceBodies ==
  {JObj(InstanceBase \o u \o st \o c) : <<u, st, c>> \in UrlsOpts \X StatsOpts \X ConfigOpts}
  \cup {JObj(InstanceBase \o sg \o l \o ca) : <<sg, l, ca>> \in StringOpts \X LangOpts \X ContactOpts}

CallerBodies == SpecBodies \cup PeersBodies \cup ActivityBodies \cup InstanceBodies \cup {JBad}

InitCaller ==
  /\ client = ClientConfig
  /\ \E b \in CallerBodies : server = [body |-> b]
  /\ calls = [i \in {1} |-> IdleCall]
  /\ mem = [a \in {Dest(1)} |-> Unallocated]
  /\ requests = <<>>

NextCaller ==
  \/ \E i \in DOMAIN calls : Invoke(i)
  \/ \E i \in DOMAIN calls : Return(i)
  \/ \E i \in DOMAIN calls : GetConfigStep(i)
  \/ \E i \in DOMAIN calls : MarshalStep(i)
  \/ \E i \in DOMAIN calls : UnmarshalStep(i)

SpecCaller == InitCaller /\ [][NextCaller]_vars

(***************************************************************************)
(* Properties.                                                             *)
(***************************************************************************)
RECURSIVE DeepEqual(_, _, _)
\* Equality of two Go values field by field; pointers are compared by what
\* they point at (reflect.DeepEqual).
DeepEqual(ty, a, b) ==
  CASE ty.k \in {"string", "int", "bool", "any", "unixtime"} -> a = b
    [] ty.k = "ptr" -> a.isnil = b.isnil /\ (~a.isnil => DeepEqual(ty.e, a.p, b.p))
    [] ty.k = "slice" ->
         /\ a.isnil = b.isnil
         /\ Len(a.e) = Len(b.e)
         /\ \A n \in DOMAIN a.e : DeepEqual(ty.e, a.e[n], b.e[n])
    [] ty.k = "map" ->
         /\ a.isnil = b.isnil
         /\ DOMAIN a.m = DOMAIN b.m
         /\ \A k \in DOMAIN a.m : DeepEqual(ty.e, a.m[k], b.m[k])
    [] ty.k = "struct" ->
         \A n \in FieldNames(ty) : DeepEqual(FieldOf(ty, n).ty, a[n], b[n])

\* Two errors of the same kind and detail (the place in the destination is
\* compared relative to the destination).
SameError(e1, e2) ==
  /\ e1.kind = e2.kind
  /\ e1.kind = "status" => e1.code = e2.code
  /\ e1.kind = "decode" => e1.why = e2.why /\ Tail(Tail(e1.at)) = Tail(Tail(e2.at))

PtrOps == {"GetInstance", "GetInstanceV2"}
NilResult(op) == IF op \in PtrOps THEN NilPtr ELSE NilSlice
IsDone(i) == calls[i].pc = "done"
Succeeded(i) == IsDone(i) /\ calls[i].ret.err = NoErr
\* What the caller of a call that succeeded sees through its result.
Seen(i) == IF calls[i].op \in PtrOps THEN mem[calls[i].ret.res.addr] ELSE calls[i].ret.res
RequestsOf(i) == SelectSeq(requests, LAMBDA r : r.call = i)
\* The value of member k of a JSON object.
JGet(j, k) == j.o[CHOOSE n \in DOMAIN j.o : j.o[n].k = k].v
HasMember(j, k) == j.t = "obj" /\ \E n \in DOMAIN j.o : j.o[n].k = k
Answered(i) == calls[i].pc = "done"
NotOK(i) == Answered(i) /\ calls[i].resp.kind = "http" /\ calls[i].resp.status \notin 200..299

\* C1: when doAPI returns an error, the operation returns that same error
\* and a nil result, and does nothing more (no further request).
C1_ErrorReturnedVerbatim ==
  \A i \in DOMAIN calls :
    IsDone(i) /\ calls[i].err # NoErr =>
      /\ calls[i].ret.err = calls[i].err
      /\ calls[i].ret.res = NilResult(calls[i].op)
      /\ Len(RequestsOf(i)) = 1

\* A call whose decode failed half way, leaving data in its variable.
C1_Witness ==
  \E i \in DOMAIN calls :
    /\ IsDone(i)
    /\ calls[i].err.kind = "decode"
    /\ calls[i].op = "GetInstanceActivity"
    /\ ~mem[Dest(i)].isnil
    /\ calls[i].ret = [res |-> NilSlice, err |-> calls[i].err]

OwnPath(op) ==
  CASE op = "GetInstance" -> "/api/v1/instance"
    [] op = "GetInstanceV2" -> "/api/v2/instance"
    [] op = "GetInstanceActivity" -> "/api/v1/instance/activity"
    [] op = "GetInstancePeers" -> "/api/v1/instance/peers"

\* C2: at every moment a call that has been invoked has made exactly one
\* doAPI call, a GET to its own path with no body and the caller's context;
\* a call not yet invoked has made none.
C2_ExactlyOneRequest ==
  \A i \in DOMAIN calls :
    LET rs == RequestsOf(i)
    IN IF calls[i].pc = "idle" THEN Len(rs) = 0
       ELSE /\ Len(rs) = 1
            /\ rs[1].req.method = "GET"
            /\ rs[1].req.uri = OwnPath(calls[i].op)
            /\ rs[1].req.params = "nil"
            /\ rs[1].req.ctx = Ctx(i)

\* Every operation has returned, one with an error and one without, and
\* the log holds one request for each call.
C2_Witness ==
  /\ \A i \in DOMAIN calls : IsDone(i)
  /\ \E i \in DOMAIN calls : calls[i].ret.err # NoErr /\ calls[i].op = "GetInstanceV2"
  /\ \E i \in DOMAIN calls : calls[i].ret.err = NoErr
  /\ Len(requests) = Cardinality(DOMAIN calls)

\* The fields the tests read, against the payload the server sent.
MatchesPayload(op, v, body) ==
  CASE op = "GetInstance" ->
         /\ v.Title = JGet(body, "title").s
         /\ v.URI = JGet(body, "uri").s
         /\ v.Description = JGet(body, "description").s
         /\ v.EMail = JGet(body, "email").s
         /\ body = PayloadInstance =>
              v.ContactAccount.p.Username = JGet(JGet(body, "contact_account"), "username").s
         /\ body = PayloadInstanceMore =>
              /\ v.Version = JGet(body, "version").s
              /\ v.Thumbnail = JGet(body, "thumbnail").s
              /\ DOMAIN v.URLs.m = {"foo", "bar"}
              /\ v.URLs.m["foo"] = JGet(JGet(body, "urls"), "foo").s
              /\ v.URLs.m["bar"] = JGet(JGet(body, "urls"), "bar").s
              /\ v.Stats.p = [UserCount |-> 1, StatusCount |-> 2, DomainCount |-> 3]
              /\ ~v.Configuration.p.Accounts.isnil
              /\ ~v.Configuration.p.Statuses.isnil
    [] op = "GetInstanceV2" ->
         /\ v.Title = JGet(body, "title").s
         /\ v.Domain = JGet(body, "domain").s
         /\ v.Usage.Users.ActiveMonth = 123122
         /\ Len(v.Rules.e) = 2
         /\ v.Contact.Account.p.ID = <<"1">>
    [] op = "GetInstanceActivity" ->
         /\ Len(v.e) = 1
         /\ v.e[1].p.Week = [set |-> TRUE, sec |-> 1516579200]
         /\ v.e[1].p.Statuses = 1
         /\ v.e[1].p.Logins = 1
         /\ v.e[1].p.Registrations = 0
    [] op = "GetInstancePeers" -> v.e = <<sMastodonSocial, sMstdnJp>>

\* The payloads that are valid for an operation.
ValidPayloads(op) ==
  CASE op = "GetInstance" -> {PayloadInstance, PayloadInstanceMore}
    [] op = "GetInstanceV2" -> {PayloadInstanceV2}
    [] op = "GetInstanceActivity" -> {PayloadActivity}
    [] op = "GetInstancePeers" -> {PayloadPeers}

\* C3: the client is never changed; two calls of the same operation that
\* got the same response have the same outcome, whatever came before; a
\* call answered 500 returns an error and a nil result; a call answered 200
\* with a valid payload succeeds, with the fields of the payload.
C3_OutcomeDependsOnOwnResponse ==
  /\ client = ClientConfig
  /\ \A i, j \in DOMAIN calls :
       IsDone(i) /\ IsDone(j) /\ calls[i].op = calls[j].op /\ calls[i].resp = calls[j].resp =>
         /\ SameError(calls[i].ret.err, calls[j].ret.err)
         /\ Succeeded(i) => DeepEqual(DestType(calls[i].op), Seen(i), Seen(j))
  /\ \A i \in DOMAIN calls :
       /\ IsDone(i) /\ calls[i].resp.kind = "http" /\ calls[i].resp.status = 500 =>
            calls[i].ret.err # NoErr /\ calls[i].ret.res = NilResult(calls[i].op)
       /\ IsDone(i) /\ calls[i].resp.kind = "http" /\ calls[i].resp.status = 200
             /\ server.body \in ValidPayloads(calls[i].op) =>
            Succeeded(i) /\ MatchesPayload(calls[i].op, Seen(i), server.body)

\* A first call answered 500 has failed, and a later call of the same
\* operation answered 200 has returned the activity of the payload.
C3_Witness ==
  \E i, j \in DOMAIN calls :
    /\ i # j
    /\ requests # <<>> /\ requests[1].call = i
    /\ calls[i].op = "GetInstanceActivity" /\ calls[j].op = "GetInstanceActivity"
    /\ IsDone(i) /\ calls[i].resp.status = 500 /\ calls[i].ret.err # NoErr
    /\ Succeeded(j) /\ calls[j].resp.status = 200
    /\ server.body = PayloadActivity
    /\ Seen(j).e[1].p.Logins = 1

\* C4: a response whose status is not 2xx makes the operation fail, even
\* when its body is a valid payload: nothing is decoded into the variable of
\* the call, and the result is nil.
C4_StatusBeforeDecode ==
  \A i \in DOMAIN calls :
    NotOK(i) =>
      /\ calls[i].err = ErrStatus(calls[i].resp.status)
      /\ mem[Dest(i)] = Zero(DestType(calls[i].op))
      /\ IsDone(i) => calls[i].ret.err # NoErr /\ calls[i].ret.res = NilResult(calls[i].op)

\* GetInstanceV2 answered 500 with the valid v2 payload as body.
C4_Witness ==
  \E i \in DOMAIN calls :
    /\ IsDone(i)
    /\ calls[i].op = "GetInstanceV2"
    /\ server.body = PayloadInstanceV2
    /\ calls[i].resp = [kind |-> "http", status |-> 500]
    /\ calls[i].ret.res = NilPtr

\* C7: whatever the interleaving, the variable of a call that doAPI has
\* answered holds, and a call that has returned yields, exactly what its
\* own response decodes to when the call runs alone; and the client is
\* never changed.
C7_CallsAreIndependent ==
  /\ client = ClientConfig
  /\ \A i \in DOMAIN calls :
       LET op == calls[i].op
           alone == doAPI(calls[i].resp, server.body, DestType(op), Zero(DestType(op)), Dest(i))
       IN /\ Answered(i) => mem[Dest(i)] = alone.v /\ calls[i].err = alone.err
          /\ IsDone(i) => calls[i].ret.err = alone.err
          /\ Succeeded(i) => Seen(i) = alone.v
          /\ IsDone(i) /\ ~Succeeded(i) => calls[i].ret.res = NilResult(op)

\* A call that started second has returned its peers while the call that
\* started first, of another operation, is still in flight.
C7_Witness ==
  \E i, j \in DOMAIN calls :
    /\ i # j
    /\ requests # <<>> /\ requests[1].call = i
    /\ calls[i].pc = "inflight" /\ calls[i].op = "GetInstance"
    /\ Succeeded(j) /\ calls[j].op = "GetInstancePeers"
    /\ Seen(j).e = <<sMastodonSocial, sMstdnJp>>

\* C10: GetInstance and GetInstanceV2 return a record that is not nil
\* exactly when they return no error.
C10_RecordIffNoError ==
  \A i \in DOMAIN calls :
    IsDone(i) /\ calls[i].op \in PtrOps =>
      (~calls[i].ret.res.isnil <=> calls[i].ret.err = NoErr)

\* GetInstance answered 200 with the body null: no error, and a record.
C10_Witness ==
  \E i \in DOMAIN calls :
    /\ IsDone(i)
    /\ calls[i].op = "GetInstance"
    /\ server.body = JNull
    /\ calls[i].resp.status = 200
    /\ calls[i].ret.err = NoErr
    /\ ~calls[i].ret.res.isnil
    /\ mem[calls[i].ret.res.addr] = Zero(Instance)

\* C5: a successful GetInstancePeers or GetInstanceActivity returns as many
\* elements as the array received, the n-th being the decoding of the n-th
\* element received.
C5_OrderPreserved ==
  \A i \in DOMAIN calls :
    Succeeded(i) /\ calls[i].op \in {"GetInstancePeers", "GetInstanceActivity"}
      /\ server.body.t = "arr" =>
        LET got == calls[i].ret.res.e
            sent == server.body.a
        IN /\ ~calls[i].ret.res.isnil
           /\ Len(got) = Len(sent)
           /\ \A n \in DOMAIN sent :
                IF calls[i].op = "GetInstancePeers"
                THEN /\ sent[n].t = "str" => got[n] = sent[n].s
                     /\ sent[n].t = "null" => got[n] = <<>>
                ELSE /\ DeepEqual(TPtr(WeeklyActivity), got[n],
                                  Dec(TPtr(WeeklyActivity), sent[n], NilPtr, <<>>).v)
                     /\ sent[n] = GoodElem(n) => got[n].p.Logins = n

\* Two peers received in an order that is not the sorted one.
C5_Witness ==
  \E i \in DOMAIN calls :
    /\ Succeeded(i)
    /\ calls[i].op = "GetInstancePeers"
    /\ server.body = JArr(<<JStr(sMstdnJp), JStr(sMastodonSocial)>>)
    /\ calls[i].ret.res.e = <<sMstdnJp, sMastodonSocial>>

\* A string that denotes an integer: digits, after an optional minus sign.
IsNumeric(s) ==
  /\ s # <<>>
  /\ LET d == IF s[1] = "-" THEN Tail(s) ELSE s
     IN d # <<>> /\ \A n \in DOMAIN d : d[n] \in Digits

HasNonNumericCounter(body) ==
  /\ body.t = "arr"
  /\ \E n \in DOMAIN body.a :
       /\ body.a[n].t = "obj"
       /\ \E m \in DOMAIN body.a[n].o :
            /\ body.a[n].o[m].k \in Counters
            /\ body.a[n].o[m].v.t = "str"
            /\ ~IsNumeric(body.a[n].o[m].v.s)

AllCountersNumeric(body) ==
  /\ body.t = "arr"
  /\ \A n \in DOMAIN body.a :
       /\ body.a[n].t = "obj"
       /\ \A k \in Counters :
            /\ HasMember(body.a[n], k)
            /\ JGet(body.a[n], k).t = "str"
            /\ IsNumeric(JGet(body.a[n], k).s)

\* C6: GetInstanceActivity fails with a decode error and no sequence when
\* some counter received is a string that is not numeric; when every
\* counter is a numeric string, each decodes to the integer it denotes.
C6_NonNumericCounterIsError ==
  \A i \in DOMAIN calls :
    IsDone(i) /\ calls[i].op = "GetInstanceActivity" /\ calls[i].resp.status = 200 =>
      /\ HasNonNumericCounter(server.body) =>
           calls[i].ret.err.kind = "decode" /\ calls[i].ret.res = NilSlice
      /\ AllCountersNumeric(server.body) =>
           /\ Succeeded(i)
           /\ \A n \in DOMAIN server.body.a :
                /\ calls[i].ret.res.e[n].p.Statuses = ParseInt(JGet(server.body.a[n], "statuses").s).n
                /\ calls[i].ret.res.e[n].p.Logins = ParseInt(JGet(server.body.a[n], "logins").s).n
                /\ calls[i].ret.res.e[n].p.Registrations =
                     ParseInt(JGet(server.body.a[n], "registrations").s).n

\* C8 as stated: encoding a decoded Instance and decoding the encoding
\* gives a record with every field equal to the first.
C8_RoundTripExact ==
  \A i \in DOMAIN calls :
    calls[i].redec.set =>
      /\ calls[i].redec.r.err = NoErr
      /\ DeepEqual(Instance, mem[calls[i].ret.res.addr], calls[i].redec.r.v)

\* C8 as amended: every field but URLs is equal; URLs is equal when it
\* holds an entry, and is nil after the round trip when it held none.
C8_RoundTripUpToEmptyURLs ==
  \A i \in DOMAIN calls :
    calls[i].redec.set =>
      LET I == mem[calls[i].ret.res.addr]
          J == calls[i].redec.r.v
      IN /\ calls[i].redec.r.err = NoErr
         /\ \A n \in FieldNames(Instance) \ {"URLs"} : DeepEqual(FieldOf(Instance, n).ty, I[n], J[n])
         /\ IF DOMAIN I.URLs.m = {} THEN J.URLs = NilMap
            ELSE DeepEqual(FieldOf(Instance, "URLs").ty, I.URLs, J.URLs)

\* An Instance decoded with an empty urls object and with statistics has
\* gone through the round trip: its URLs came back nil.
C8_Witness ==
  \E i \in DOMAIN calls :
    /\ calls[i].redec.set
    /\ HasMember(server.body, "urls")
    /\ JGet(server.body, "urls") = JObj(<<>>)
    /\ mem[calls[i].ret.res.addr].URLs = Map(<<>>)
    /\ ~mem[calls[i].ret.res.addr].Stats.isnil
    /\ calls[i].redec.r.v.URLs = NilMap

\* C9: GetConfig returns the Configuration pointer of the record as it is
\* (nil when the JSON had no configuration) and leaves the record as it
\* was; a configuration received with accounts and statuses holding one
\* key each comes back with both maps there, holding exactly those keys.
C9_GetConfigIsProjection ==
  \A i \in DOMAIN calls :
    calls[i].cfg.set =>
      LET cfg == calls[i].cfg.v
      IN /\ cfg = calls[i].cfg.before.Configuration
         /\ mem[calls[i].ret.res.addr] = calls[i].cfg.before
         /\ (~HasMember(server.body, "configuration")
               \/ JGet(server.body, "configuration") = JNull) => cfg = NilPtr
         /\ (HasMember(server.body, "configuration")
               /\ JGet(server.body, "configuration") = JGet(PayloadInstanceMore, "configuration")) =>
              /\ ~cfg.isnil
              /\ cfg.addr = Dest(i) \o <<"Configuration">>
              /\ ~cfg.p.Accounts.isnil
              /\ DOMAIN cfg.p.Accounts.p.m = {"max_featured_tags"}
              /\ ~cfg.p.Statuses.isnil
              /\ DOMAIN cfg.p.Statuses.p.m = {"max_characters"}

\* GetConfig has been called on the Instance of TestGetInstanceMore.
C9_Witness ==
  \E i \in DOMAIN calls :
    /\ calls[i].cfg.set
    /\ server.body = PayloadInstanceMore
    /\ ~calls[i].cfg.v.isnil
    /\ calls[i].cfg.v.p.Accounts.p.m["max_featured_tags"] = [t |-> "f64", n |-> 10]
    /\ calls[i].cfg.v.p.Polls.isnil

====
